---------------------------- MODULE Spec2Model ----------------------------
(***************************************************************************)
(* py-flow-trace (src/main.py): the call-graph extraction.                 *)
(*                                                                         *)
(* A run walks a directory, parses every source file and traverses its     *)
(* syntax tree with EventAnalysisVisitor, which keeps an import table and  *)
(* a class/method context and records resolved calls in CallInfo.          *)
(*                                                                         *)
(* Dotted names ("pkg.mod.C", "a.b") are sequences of their segments, so   *)
(* str.split(".") and ".".join are sequence operations.  The syntax tree   *)
(* is delivered in traversal order: ast.NodeVisitor visits a node, then    *)
(* (generic_visit) its children in order; `stack` holds the declarations   *)
(* whose generic_visit is in progress.                                     *)
(***************************************************************************)
EXTENDS Naturals, Sequences, FiniteSets, TLC

\* Bounds of the model.
MaxNodes == 6   \* syntax-tree nodes visited in one run, Module nodes included
MaxDepth == 3   \* nesting depth of class/function declarations
MaxInput == 7   \* input steps of an execution that is repeated
MaxWalkDepth == 1   \* depth of the directories below the root that are listed
MaxParNodes == 3   \* nodes visited in one file, of files traversed side by side

\* Python's None, where the code holds a name or None.
None == "<None>"
\* An ImportFrom node without a module name (from . import x): node.module is None.
NoModule == << >>
\* get_callee returning None.
NoLabel == << >>
\* An empty dict / defaultdict.
EmptyDict == << >>

----------------------------------------------------------------------------
\* The inputs: files and syntax-tree nodes.

\* Source files below the root ".": directories, file name stem, extension.
FilePaths ==
    { [dirs |-> <<"pkg">>, stem |-> "mod", ext |-> ".py"],
      [dirs |-> << >>,     stem |-> "app", ext |-> ".py"] }

\* os.walk(topdown=True) hands over the files of a directory before those of
\* its subdirectories: whether file p comes before file q.
WalksBefore(p, q) == Len(p.dirs) < Len(q.dirs)

ClassNames == {"C", "D"}
FunctionNames == {"m", "g"}

\* ast.alias: name (dotted for `import a.b`) and asname.
Alias(n, as) == [name |-> n, asname |-> as]

\* node.names of the Import nodes considered.
ImportNames ==
    { << Alias(<<"a">>, None) >>,
      << Alias(<<"a">>, "b") >>,
      << Alias(<<"a", "b">>, None), Alias(<<"b">>, None) >> }

\* (node.module, node.names) of the ImportFrom nodes considered.
ImportFromNodes ==
    { [module |-> <<"pkg">>, names |-> << Alias(<<"a">>, None) >>],
      [module |-> <<"pkg">>, names |-> << Alias(<<"a">>, "b") >>],
      [module |-> <<"pkg">>, names |-> << Alias(<<"print">>, None) >>],
      [module |-> NoModule,  names |-> << Alias(<<"a">>, None) >>] }

\* node.func of a Call node: a Name (id), an Attribute of a Name (id.attr), an
\* Attribute of an Attribute of a Name (id.attr.attr), or any other expression
\* (f()(), arr[0]).
CallIds == {"a", "b", "print"}
CallAttrs == {"b"}
Funcs ==
    { [shape |-> "Name", id |-> i, attr |-> None] : i \in CallIds }
    \cup { [shape |-> "Attribute", id |-> i, attr |-> x] : i \in CallIds, x \in CallAttrs }
    \cup { [shape |-> "AttributeChain", id |-> "a", attr |-> "b"],
           [shape |-> "Other", id |-> None, attr |-> None] }

\* One step of input: a file handed to analyze_file, a node of its tree, the
\* end of a declaration's children, the end of the tree, the end of the walk.
Event(k, p, ok, nm, mod, names, f) ==
    [kind |-> k, path |-> p, ok |-> ok, name |-> nm, module |-> mod,
     names |-> names, func |-> f]
NoPath == [dirs |-> << >>, stem |-> None, ext |-> None]
NoFunc == [shape |-> None, id |-> None, attr |-> None]
NodeEvent(k, nm, mod, names, f) == Event(k, NoPath, TRUE, nm, mod, names, f)

Events ==
    { Event("File", p, ok, None, NoModule, << >>, NoFunc) : p \in FilePaths, ok \in BOOLEAN }
    \cup { NodeEvent("Import", None, NoModule, n, NoFunc) : n \in ImportNames }
    \cup { NodeEvent("ImportFrom", None, i.module, i.names, NoFunc) : i \in ImportFromNodes }
    \cup { NodeEvent("ClassDef", c, NoModule, << >>, NoFunc) : c \in ClassNames }
    \cup { NodeEvent("FunctionDef", f, NoModule, << >>, NoFunc) : f \in FunctionNames }
    \cup { NodeEvent("Call", None, NoModule, << >>, f) : f \in Funcs }
    \cup { NodeEvent(k, None, NoModule, << >>, NoFunc) : k \in {"Leave", "EndFile", "EndWalk"} }

----------------------------------------------------------------------------
VARIABLES
    pc,               \* where the run is: "walk", "visit", "failed", "returned", "exported"
    analyzed,         \* the files already handed to analyze_file
    call_relations,   \* CallInfo.call_relations: caller -> callee -> count
    current_file,     \* visitor.current_file
    current_class,    \* visitor.current_class
    current_method,   \* visitor.current_method
    imports,          \* visitor.imports
    stack,            \* ClassDef/FunctionDef nodes being traversed, outermost first,
                      \* each with the class context it was entered in (history)
    json_file,        \* analysis_result.json as written by this run
    nodes,            \* nodes visited so far in this run
    last,             \* history: the input of the last step and what it met
    matched,          \* history: (caller, callee) -> matched call sites of this run
    parse_failed,     \* history: some file of this run did not parse
    declared,         \* history: local name -> the import declaration of this
                      \* file that named it last (its kind and module)
    settings,         \* load_config's result: path and ignore_list
    walk_pc,          \* where walk_and_analyze stands in its two loops
    pending,          \* os.walk: the directories still to be yielded
    cur,              \* os.walk's yield: root, dirs as listed and as
                      \* pruned, next file
    walked,           \* history: the directories os.walk has yielded
    vis,              \* file -> its EventAnalysisVisitor, of traversals side by side
    wstate,           \* file -> "new", "visit" or "done"
    fed,              \* history: file -> the nodes its traversal has visited
    run,              \* 0: the one execution; 1, 2: the first and second of two
    src,              \* history: the input of the first execution, in order
    first             \* history: analysis_result.json of the first execution

vars == << pc, analyzed, call_relations, current_file, current_class,
           current_method, imports, stack, json_file, nodes, last, matched,
           parse_failed, declared, run, src, first,
           settings, walk_pc, pending, cur, walked, vis, wstate, fed >>

workers == << vis, wstate, fed >>

discovery == << settings, walk_pc, pending, cur, walked >>

visitor == << current_file, current_class, current_method, imports, stack >>

\* last: the input the last step took, the call graph as it was before that
\* step, and the declaration the step left, if it left one.
NoFrame == [kind |-> None, name |-> None, outer |-> None]
NoEvent == NodeEvent(None, None, NoModule, << >>, NoFunc)
NoLast == [event |-> NoEvent, before |-> EmptyDict, left |-> NoFrame]
NotWritten == [written |-> FALSE, data |-> EmptyDict]
NoYield == [root |-> << >>, listed |-> << >>, dirs |-> << >>, next |-> 1]

\* The discovery of files is not followed step by step: its result is the
\* order in which analyze_file takes the files.
DiscoveryElided ==
    /\ settings = [path |-> ".", ignore_list |-> << >>]
    /\ walk_pc = "elided"
    /\ pending = << >>
    /\ cur = NoYield
    /\ walked = {}

\* The files are traversed one after the other.
NoWorkers ==
    /\ vis = << >>
    /\ wstate = << >>
    /\ fed = << >>

----------------------------------------------------------------------------
\* CallInfo (lines 14-20).

\* The aggregator kept from the run before.
CallInfo_kept == call_relations

\* CallInfo.__init__: the aggregator of a run starts empty.
CallInfo_init == EmptyDict

\* add_call with the count set, not raised.
add_call_set(relations, caller, callee) ==
    LET callees == IF caller \in DOMAIN relations THEN relations[caller] ELSE EmptyDict
    IN  [k \in DOMAIN relations \cup {caller} |->
            IF k = caller
                THEN [c \in DOMAIN callees \cup {callee} |->
                        IF c = callee THEN 1 ELSE callees[c]]
                ELSE relations[k]]

\* add_call that makes a new inner entry for the caller each time.
add_call_overwrite(relations, caller, callee) ==
    LET callees == IF caller \in DOMAIN relations THEN relations[caller] ELSE EmptyDict
        count   == IF callee \in DOMAIN callees THEN callees[callee] ELSE 0
    IN  [k \in DOMAIN relations \cup {caller} |->
            IF k = caller THEN [c \in {callee} |-> count + 1] ELSE relations[k]]

\* add_call: two nested defaultdicts, the inner one of int.
add_call(relations, caller, callee) ==
    LET callees == IF caller \in DOMAIN relations THEN relations[caller] ELSE EmptyDict
        count   == IF callee \in DOMAIN callees THEN callees[callee] ELSE 0
        bumped  == [c \in DOMAIN callees \cup {callee} |->
                        IF c = callee THEN count + 1 ELSE callees[c]]
    IN  [k \in DOMAIN relations \cup {caller} |->
            IF k = caller THEN bumped ELSE relations[k]]

\* get_module_path: extension removed, relative to the root, separators to dots.
get_module_path(file_path) == file_path.dirs \o << file_path.stem >>

----------------------------------------------------------------------------
\* EventAnalysisVisitor (lines 37-98).

\* dir(builtins), as far as the identifiers of the model go.
builtin_modules == { <<"print">>, <<"len">> }

\* visit_Import's loop body that binds the rename target where there is one.
bind_import_asname(table, alias) ==
    LET key == IF alias.asname # None THEN << alias.asname >> ELSE alias.name
    IN  [k \in DOMAIN table \cup {key} |->
            IF k = key THEN alias.name ELSE table[k]]

\* visit_Import's loop body: imports[alias.name] = alias.name.
bind_import(table, alias) ==
    [k \in DOMAIN table \cup {alias.name} |->
        IF k = alias.name THEN alias.name ELSE table[k]]

\* f"{module}": the module name, or the text None.
module_text(module) == IF module = NoModule THEN <<"None">> ELSE module

\* visit_ImportFrom's loop body that keeps the binding a name already has.
bind_import_from_first(table, module, alias) ==
    [k \in DOMAIN table \cup {alias.name} |->
        IF k \in DOMAIN table THEN table[k] ELSE module_text(module) \o alias.name]

\* visit_ImportFrom's loop body: imports[alias.name] = f"{module}.{alias.name}".
bind_import_from(table, module, alias) ==
    [k \in DOMAIN table \cup {alias.name} |->
        IF k = alias.name THEN module_text(module) \o alias.name ELSE table[k]]

RECURSIVE import_names(_, _)
\* visit_Import's for loop over node.names.
import_names(table, names) ==
    IF names = << >> THEN table
    ELSE import_names(bind_import(table, Head(names)), Tail(names))

RECURSIVE import_from_names(_, _, _)
\* visit_ImportFrom's for loop over node.names.
import_from_names(table, module, names) ==
    IF names = << >> THEN table
    ELSE import_from_names(bind_import_from(table, module, Head(names)), module, Tail(names))

\* get_callee that also labels a longer attribute chain.
get_callee_chain(func) ==
    IF func.shape = "Attribute" THEN << func.id, func.attr >>
    ELSE IF func.shape = "AttributeChain" THEN << func.id, func.attr, func.attr >>
    ELSE IF func.shape = "Name" THEN << func.id >>
    ELSE NoLabel

\* get_callee: the label of a call, or None.
get_callee(func) ==
    IF func.shape = "Attribute" THEN << func.id, func.attr >>
    ELSE IF func.shape = "Name" THEN << func.id >>
    ELSE NoLabel

\* A caller identity made of the innermost named scope alone.
caller_identity_innermost(file, class, method) ==
    IF method # None THEN get_module_path(file) \o << method >>
    ELSE IF class # None THEN get_module_path(file) \o << class >>
    ELSE get_module_path(file)

\* Lines 76-82: the caller identity.
caller_identity(file, class, method) ==
    IF class # None /\ method # None
        THEN get_module_path(file) \o << class, method >>
    ELSE IF class # None
        THEN get_module_path(file) \o << class >>
    ELSE get_module_path(file)

\* Lines 85-90 with the label recorded as it stands, without the substitution.
resolve_unsubstituted(relations, table, caller, callee) ==
    IF << callee[1] >> \in DOMAIN table
        THEN add_call(relations, caller, callee)
        ELSE relations

\* Lines 85-90 with the add_call after the branch, not inside it.
resolve_then_record(relations, table, caller, callee) ==
    IF << callee[1] >> \in DOMAIN table
        THEN add_call(relations, caller, table[<< callee[1] >>] \o Tail(callee))
        ELSE add_call(relations, caller, callee)

\* Lines 85-90: the import substitution and the add_call inside its branch.
resolve_and_record(relations, table, caller, callee) ==
    LET parts == callee
    IN  IF << parts[1] >> \in DOMAIN table
            THEN add_call(relations, caller, table[<< parts[1] >>] \o Tail(parts))
            ELSE relations

\* Lines 72-90 with the built-in check made on the substituted name.
record_call_filter_late(relations, table, file, class, method, func) ==
    LET callee == get_callee(func)
    IN  IF callee # NoLabel /\ << callee[1] >> \in DOMAIN table
            THEN LET resolved == table[<< callee[1] >>] \o Tail(callee)
                 IN  IF resolved \notin builtin_modules
                        THEN add_call(relations, caller_identity(file, class, method),
                                      resolved)
                        ELSE relations
            ELSE relations

\* Lines 72-90: what visit_Call does to the call graph.
record_call(relations, table, file, class, method, func) ==
    LET callee == get_callee(func)
    IN  IF callee # NoLabel
            THEN IF callee \notin builtin_modules
                    THEN resolve_and_record(relations, table,
                             caller_identity(file, class, method), callee)
                    ELSE relations
            ELSE relations


\* The history of matched call sites: one more for the pair, when the site
\* has a label that is no built-in name and whose first segment is bound.
count_site(m, table, file, class, method, func) ==
    LET label == IF func.shape = "Name" THEN << func.id >>
                 ELSE IF func.shape = "Attribute" THEN << func.id, func.attr >>
                 ELSE << >>
    IN  IF label = << >> \/ label \in builtin_modules
           \/ << Head(label) >> \notin DOMAIN table
        THEN m
        ELSE LET scope == IF class = None THEN << >>
                          ELSE IF method = None THEN << class >>
                          ELSE << class, method >>
                 pair  == << file.dirs \o << file.stem >> \o scope,
                             table[<< Head(label) >>] \o Tail(label) >>
             IN  [q \in DOMAIN m \cup {pair} |->
                    IF q = pair THEN (IF q \in DOMAIN m THEN m[q] ELSE 0) + 1
                    ELSE m[q]]

----------------------------------------------------------------------------
\* The run (lines 101-116, 138-144).

Init ==
    /\ pc = "start"
    /\ analyzed = {}
    /\ call_relations = EmptyDict
    /\ current_file = NoPath
    /\ current_class = None
    /\ current_method = None
    /\ imports = EmptyDict
    /\ stack = << >>
    /\ json_file = NotWritten
    /\ nodes = 0
    /\ last = NoLast
    /\ matched = EmptyDict
    /\ parse_failed = FALSE
    /\ declared = EmptyDict
    /\ DiscoveryElided
    /\ NoWorkers
    /\ run = 0
    /\ src = << >>
    /\ first = NotWritten

\* walk_and_analyze is entered (line 110): call_info = CallInfo().
start_walk ==
    /\ pc = "start"
    /\ pc' = "walk"
    /\ call_relations' = CallInfo_init
    /\ UNCHANGED << analyzed, visitor, json_file, nodes, matched, parse_failed >>

\* The file that does not parse is skipped and the walk goes on.
on_parse_error_skip == "walk"

\* Where a SyntaxError raised by ast.parse leaves the run: nothing catches it.
on_parse_error == "failed"

\* One import table shared by every visitor: the next file starts with the
\* bindings the previous one left.
visitor_imports_shared == imports

\* EventAnalysisVisitor.__init__ (line 43): a visitor's own, empty import table.
visitor_imports_init == EmptyDict

\* analyze_file up to visitor.visit(tree): the file is read and parsed, and a
\* new visitor is made (EventAnalysisVisitor.__init__); the Module node has no
\* handler of its own.
analyze_file(path, ok) ==
    /\ pc = "walk"
    /\ path \notin analyzed
    /\ \A q \in analyzed : WalksBefore(q, path)
    /\ nodes < MaxNodes
    /\ analyzed' = analyzed \cup {path}
    /\ IF ok
         THEN /\ pc' = "visit"
              /\ current_file' = path
              /\ current_class' = None
              /\ current_method' = None
              /\ imports' = visitor_imports_init
              /\ stack' = << >>
              /\ nodes' = nodes + 1
              /\ UNCHANGED parse_failed
         ELSE /\ pc' = on_parse_error
              /\ parse_failed' = TRUE
              /\ UNCHANGED << visitor, nodes >>
    /\ UNCHANGED << call_relations, json_file, matched >>

\* visitor.visit(tree) returns: the whole tree is traversed and analyze_file
\* returns; its visitor is used no more.
end_file ==
    /\ pc = "visit"
    /\ stack = << >>
    /\ pc' = "walk"
    /\ UNCHANGED << analyzed, call_relations, visitor, json_file, nodes, matched,
                    parse_failed >>

\* os.walk is exhausted: walk_and_analyze returns call_info.call_relations.
end_walk ==
    /\ pc = "walk"
    /\ pc' = "returned"
    /\ UNCHANGED << analyzed, call_relations, visitor, json_file, nodes, matched,
                    parse_failed >>

\* Lines 141-144: the graph is written to analysis_result.json.
export ==
    /\ pc = "returned"
    /\ pc' = "exported"
    /\ json_file' = [written |-> TRUE,
                     data |-> [caller \in DOMAIN call_relations |-> call_relations[caller]]]
    /\ UNCHANGED << analyzed, call_relations, visitor, nodes, matched, parse_failed >>

----------------------------------------------------------------------------
\* The traversal.

Visiting == pc = "visit" /\ nodes < MaxNodes

\* visit_Import that binds only the declarations at module level.
visit_Import_toplevel(names) ==
    /\ Visiting
    /\ imports' = IF stack = << >> THEN import_names(imports, names) ELSE imports
    /\ nodes' = nodes + 1
    /\ UNCHANGED << pc, analyzed, call_relations, current_file, current_class,
                    current_method, stack, json_file, matched, parse_failed >>

visit_Import(names) ==
    /\ Visiting
    /\ imports' = import_names(imports, names)
    /\ nodes' = nodes + 1
    /\ UNCHANGED << pc, analyzed, call_relations, current_file, current_class,
                    current_method, stack, json_file, matched, parse_failed >>

visit_ImportFrom(module, names) ==
    /\ Visiting
    /\ imports' = import_from_names(imports, module, names)
    /\ nodes' = nodes + 1
    /\ UNCHANGED << pc, analyzed, call_relations, current_file, current_class,
                    current_method, stack, json_file, matched, parse_failed >>

\* visit_ClassDef up to its generic_visit.
visit_ClassDef(name) ==
    /\ Visiting
    /\ Len(stack) < MaxDepth
    /\ current_class' = name
    /\ stack' = Append(stack, [kind |-> "ClassDef", name |-> name,
                                outer |-> current_class])
    /\ nodes' = nodes + 1
    /\ UNCHANGED << pc, analyzed, call_relations, current_file, current_method,
                    imports, json_file, matched, parse_failed >>

\* visit_ClassDef after its generic_visit: both contexts are reset.
leave_ClassDef ==
    /\ pc = "visit"
    /\ stack # << >>
    /\ stack[Len(stack)].kind = "ClassDef"
    /\ stack' = SubSeq(stack, 1, Len(stack) - 1)
    /\ current_class' = None
    /\ current_method' = None
    /\ UNCHANGED << pc, analyzed, call_relations, current_file, imports,
                    json_file, nodes, matched, parse_failed >>

\* A function declaration that sets the method context wherever it stands.
method_in_any_FunctionDef(class, method, name) == name

\* The method context a function declaration sets (lines 66-67).
method_in_FunctionDef(class, method, name) ==
    IF class # None THEN name ELSE method

\* visit_FunctionDef up to its generic_visit.
visit_FunctionDef(name) ==
    /\ Visiting
    /\ Len(stack) < MaxDepth
    /\ current_method' = method_in_FunctionDef(current_class, current_method, name)
    /\ stack' = Append(stack, [kind |-> "FunctionDef", name |-> name,
                                outer |-> current_class])
    /\ nodes' = nodes + 1
    /\ UNCHANGED << pc, analyzed, call_relations, current_file, current_class,
                    imports, json_file, matched, parse_failed >>

\* visit_FunctionDef after its generic_visit (line 69).
leave_FunctionDef ==
    /\ pc = "visit"
    /\ stack # << >>
    /\ stack[Len(stack)].kind = "FunctionDef"
    /\ stack' = SubSeq(stack, 1, Len(stack) - 1)
    /\ current_method' = None
    /\ UNCHANGED << pc, analyzed, call_relations, current_file, current_class,
                    imports, json_file, nodes, matched, parse_failed >>

\* visit_Call.  Its generic_visit goes on to the callee expression and the
\* arguments, which hold no declarations or imports: the calls among them
\* are the Call nodes visited next, and nothing is done after them.
visit_Call(func) ==
    /\ Visiting
    /\ call_relations' = record_call(call_relations, imports, current_file,
                                     current_class, current_method, func)
    /\ nodes' = nodes + 1
    /\ matched' = count_site(matched, imports, current_file, current_class,
                             current_method, func)
    /\ UNCHANGED << pc, analyzed, visitor, json_file, parse_failed >>

\* The history of the step that takes the input e: the step itself, the
\* import declarations of the file so far.  Of two executions, the first
\* one's input is kept and the second one consumes it.
Observe(e) ==
    /\ last' = [event |-> e, before |-> call_relations,
                 left |-> IF e.kind = "Leave" /\ stack # << >>
                            THEN stack[Len(stack)] ELSE NoFrame]
    /\ declared' =
          IF e.kind = "File" THEN EmptyDict
          ELSE IF e.kind \in {"Import", "ImportFrom"}
            THEN LET named == { e.names[i].name : i \in 1..Len(e.names) }
                 IN  [k \in DOMAIN declared \cup named |->
                        IF k \in named THEN [kind |-> e.kind, module |-> e.module]
                        ELSE declared[k]]
          ELSE declared
    /\ src' = IF run = 1 THEN Append(src, e)
              ELSE IF run = 2 THEN Tail(src)
              ELSE src
    /\ UNCHANGED << run, first, discovery, workers >>

\* One step of the run on the input e.
Step(e) ==
    \/ e.kind = "File" /\ analyze_file(e.path, e.ok) /\ Observe(e)
    \/ e.kind = "Import" /\ visit_Import(e.names) /\ Observe(e)
    \/ e.kind = "ImportFrom" /\ visit_ImportFrom(e.module, e.names) /\ Observe(e)
    \/ e.kind = "ClassDef" /\ visit_ClassDef(e.name) /\ Observe(e)
    \/ e.kind = "FunctionDef" /\ visit_FunctionDef(e.name) /\ Observe(e)
    \/ e.kind = "Call" /\ visit_Call(e.func) /\ Observe(e)
    \/ e.kind = "Leave" /\ leave_ClassDef /\ Observe(e)
    \/ e.kind = "Leave" /\ leave_FunctionDef /\ Observe(e)
    \/ e.kind = "EndFile" /\ end_file /\ Observe(e)
    \/ e.kind = "EndWalk" /\ end_walk /\ Observe(e)

\* The steps that take no input.
Quiet(A) == A /\ last' = NoLast /\ UNCHANGED << declared, run, src, first, discovery, workers >>

\* One execution of the program, on any input.
Next ==
    \/ Quiet(start_walk)
    \/ \E e \in Events : Step(e)
    \/ Quiet(export)

Spec == Init /\ [][Next]_vars

----------------------------------------------------------------------------
\* The program executed twice on the same files.

InitRerun ==
    /\ pc = "start"
    /\ analyzed = {}
    /\ call_relations = EmptyDict
    /\ current_file = NoPath
    /\ current_class = None
    /\ current_method = None
    /\ imports = EmptyDict
    /\ stack = << >>
    /\ json_file = NotWritten
    /\ nodes = 0
    /\ last = NoLast
    /\ matched = EmptyDict
    /\ parse_failed = FALSE
    /\ declared = EmptyDict
    /\ DiscoveryElided
    /\ NoWorkers
    /\ run = 1
    /\ src = << >>
    /\ first = NotWritten

\* The input of the first execution.
RerunEvents ==
    { e \in Events :
        \/ e.kind \in {"File", "Leave", "EndFile", "EndWalk"}
        \/ e.kind = "Import" /\ e.names = << Alias(<<"a">>, None) >>
        \/ e.kind = "ImportFrom" /\ e.names = << Alias(<<"a">>, None) >>
                                 /\ e.module # NoModule
        \/ e.kind = "ClassDef" /\ e.name = "C"
        \/ e.kind = "FunctionDef" /\ e.name = "m"
        \/ e.kind = "Call" /\ e.func.shape = "Attribute" /\ e.func.id \in {"a", "b"} }

\* The input a step of two executions may take: any, or the next one kept.
RerunInput ==
    IF run = 1 THEN (IF Len(src) < MaxInput THEN RerunEvents ELSE {})
    ELSE IF src # << >> THEN {Head(src)} ELSE {}

\* The program is started again in the same directory.
rerun ==
    /\ run = 1
    /\ pc = "exported"
    /\ run' = 2
    /\ first' = json_file
    /\ pc' = "start"
    /\ analyzed' = {}
    /\ json_file' = NotWritten
    /\ nodes' = 0
    /\ last' = NoLast
    /\ matched' = EmptyDict
    /\ UNCHANGED << call_relations, visitor, parse_failed, declared, src,
                    discovery, workers >>

NextRerun ==
    \/ Quiet(start_walk)
    \/ \E e \in RerunInput : Step(e)
    \/ Quiet(export)
    \/ rerun

SpecRerun == InitRerun /\ [][NextRerun]_vars


----------------------------------------------------------------------------
\* The discovery of files (lines 109-116), followed step by step.  The
\* directory tree is the input: os.walk lists one directory at a time.

\* The characters of the names of the model.
Spell(name) ==
    CASE name = "." -> << "." >>
      [] name = "" -> << >>
      [] name = ".py" -> << ".", "p", "y" >>
      [] name = ".txt" -> << ".", "t", "x", "t" >>
      [] name = "m" -> << "m" >>
      [] name = "mpy" -> << "m", "p", "y" >>
      [] name = "pkg" -> << "p", "k", "g" >>
      [] name = "tmp" -> << "t", "m", "p" >>
      [] name = "env" -> << "e", "n", "v" >>
      [] name = "myenv" -> << "m", "y", "e", "n", "v" >>
      [] name = "venv" -> << "v", "e", "n", "v" >>
      [] name = ".venv" -> << ".", "v", "e", "n", "v" >>
      [] name = ".git" -> << ".", "g", "i", "t" >>
      [] name = "alembic" -> << "a", "l", "e", "m", "b", "i", "c" >>
      [] name = "__pycache__" ->
            << "_", "_", "p", "y", "c", "a", "c", "h", "e", "_", "_" >>

\* load_config: the default ignore list, the ignore entries and the path a
\* pyproject.toml may give.
default_ignore_list == << "__pycache__", ".git", ".venv", "venv", "env", "alembic" >>
ConfigIgnores == { << >>, << "tmp" >> }
ConfigPaths == { ".", "env" }
load_config ==
    { [path |-> p, ignore_list |-> default_ignore_list \o ig] :
        p \in ConfigPaths, ig \in ConfigIgnores }

\* The entries a directory may list, in the order os.walk gives them.
DirOrder == << "pkg", "myenv" >>
FileOrder ==
    << [stem |-> "m", ext |-> ".py"],
       [stem |-> "env", ext |-> ".py"],
       [stem |-> "tmp", ext |-> ".py"],
       [stem |-> "m", ext |-> ".txt"],
       [stem |-> "mpy", ext |-> ""] >>
Listed(order, S) == SelectSeq(order, LAMBDA x : x \in S)
Range(seq) == { seq[i] : i \in 1..Len(seq) }

\* The content of a source file: `import a` and one call.
WalkSources ==
    { [shape |-> "Attribute", id |-> "a", attr |-> "b"],
      [shape |-> "Other", id |-> None, attr |-> None] }

\* x in text, for strings.
in_str(x, text) ==
    \E i \in 0..(Len(text) - Len(x)) : SubSeq(text, i + 1, i + Len(x)) = x

\* text.endswith(suffix).
endswith(text, suffix) ==
    /\ Len(suffix) <= Len(text)
    /\ SubSeq(text, Len(text) - Len(suffix) + 1, Len(text)) = suffix

\* os.path.join(root, name), on the characters.
path_join(root, name) == root \o << "/" >> \o name

RECURSIVE root_text(_, _)
\* The root os.walk yields for the directory dirs below the top directory.
root_text(top, dirs) ==
    IF dirs = << >> THEN Spell(top)
    ELSE path_join(root_text(top, SubSeq(dirs, 1, Len(dirs) - 1)),
                   Spell(dirs[Len(dirs)]))

RECURSIVE any_ignored(_, _)
\* any(ig in text for ig in ignore_list).
any_ignored(text, ignore_list) ==
    IF ignore_list = << >> THEN FALSE
    ELSE in_str(Spell(Head(ignore_list)), text)
            \/ any_ignored(text, Tail(ignore_list))

\* Line 112: the directories os.walk goes on to.
prune_dirs(root, dirs, ignore_list) ==
    SelectSeq(dirs, LAMBDA d : ~any_ignored(path_join(root, Spell(d)), ignore_list))

\* Line 114 without the test of the ignore list.
is_python_file(root, file, ignore_list) ==
    endswith(Spell(file.stem) \o Spell(file.ext), Spell(".py"))

\* Line 114: the files that are analysed.
is_source_file(root, file, ignore_list) ==
    LET name == Spell(file.stem) \o Spell(file.ext)
    IN  /\ endswith(name, Spell(".py"))
        /\ ~any_ignored(path_join(root, name), ignore_list)

\* analyze_file on a file that imports a and makes one call at module level.
analyze_source(relations, file_path, func) ==
    record_call(relations, import_names(visitor_imports_init, << Alias(<<"a">>, None) >>),
                file_path, None, None, func)

InitWalk ==
    /\ pc = "start"
    /\ analyzed = {}
    /\ call_relations = CallInfo_init
    /\ current_file = NoPath
    /\ current_class = None
    /\ current_method = None
    /\ imports = EmptyDict
    /\ stack = << >>
    /\ json_file = NotWritten
    /\ nodes = 0
    /\ last = NoLast
    /\ matched = EmptyDict
    /\ parse_failed = FALSE
    /\ declared = EmptyDict
    /\ run = 0
    /\ src = << >>
    /\ first = NotWritten
    /\ settings \in load_config
    /\ walk_pc = "walk"
    /\ pending = << << >> >>
    /\ cur = NoYield
    /\ walked = {}
    /\ NoWorkers

traversal ==
    << pc, current_file, current_class, current_method, imports, stack, json_file,
       nodes, last, matched, parse_failed, declared, run, src, first >>

\* os.walk yields the next directory with the directories it lists, and line
\* 112 prunes them in place.
os_walk_yield(listed) ==
    /\ walk_pc = "walk"
    /\ pending # << >>
    /\ LET dir  == Head(pending)
           dirs == IF Len(dir) < MaxWalkDepth THEN Listed(DirOrder, listed) ELSE << >>
       IN  /\ cur' = [root |-> dir,
                      listed |-> dirs,
                      dirs |-> prune_dirs(root_text(settings.path, dir), dirs,
                                          settings.ignore_list),
                      next |-> 1]
           /\ walked' = walked \cup {dir}
    /\ pending' = Tail(pending)
    /\ walk_pc' = "files"
    /\ UNCHANGED << settings, analyzed, call_relations, traversal, workers >>

\* One turn of the loop over files (lines 113-115), for the i-th possible
\* file, which the directory lists after the files taken so far.
walk_file(i, func) ==
    /\ walk_pc = "files"
    /\ i >= cur.next
    /\ cur' = [cur EXCEPT !.next = i + 1]
    /\ LET file == FileOrder[i]
           path == [dirs |-> cur.root, stem |-> file.stem, ext |-> file.ext]
       IN  IF is_source_file(root_text(settings.path, cur.root), file,
                             settings.ignore_list)
             THEN /\ analyzed' = analyzed \cup {path}
                  /\ call_relations' = analyze_source(call_relations, path, func)
             ELSE UNCHANGED << analyzed, call_relations >>
    /\ UNCHANGED << settings, walk_pc, pending, walked, traversal, workers >>

\* The loop over files ends and os.walk is resumed: it goes on to the
\* directories left in dirs, before the ones of the levels above.
os_walk_resume ==
    /\ walk_pc = "files"
    /\ pending' = [k \in 1..Len(cur.dirs) |-> Append(cur.root, cur.dirs[k])] \o pending
    /\ walk_pc' = "walk"
    /\ UNCHANGED << settings, cur, walked, analyzed, call_relations, traversal, workers >>

\* os.walk is exhausted (line 116).
walk_return ==
    /\ walk_pc = "walk"
    /\ pending = << >>
    /\ walk_pc' = "done"
    /\ UNCHANGED << settings, pending, cur, walked, analyzed, call_relations,
                    traversal, workers >>

NextWalk ==
    \/ \E listed \in SUBSET Range(DirOrder) : os_walk_yield(listed)
    \/ \E i \in 1..Len(FileOrder), func \in WalkSources : walk_file(i, func)
    \/ os_walk_resume
    \/ walk_return

SpecWalk == InitWalk /\ [][NextWalk]_vars

----------------------------------------------------------------------------
\* The files traversed side by side: each has the visitor analyze_file makes
\* for it (line 105), all add to the one CallInfo, and one step is one node
\* visited, its add_call included.

\* The visitor a traversal works on when there is one visitor for all files.
visitor_of_any(visitors, file) ==
    visitors[CHOOSE f \in DOMAIN visitors : visitors[f].current_file # NoPath]

\* The visitor a traversal works on: the one made for its file.
visitor_of(visitors, file) == visitors[file]

\* EventAnalysisVisitor.__init__.
new_visitor(file_path) ==
    [current_file |-> file_path, current_class |-> None, current_method |-> None,
     imports |-> visitor_imports_init, stack |-> << >>]

NoVisitor ==
    [current_file |-> NoPath, current_class |-> None, current_method |-> None,
     imports |-> EmptyDict, stack |-> << >>]

\* The nodes of the files traversed side by side.
ParEvents ==
    { e \in Events :
        \/ e.kind = "Leave"
        \/ e.kind = "Import" /\ e.names = << Alias(<<"a">>, None) >>
        \/ e.kind = "ClassDef" /\ e.name = "C"
        \/ e.kind = "FunctionDef" /\ e.name = "m"
        \/ e.kind = "Call" /\ e.func = [shape |-> "Attribute", id |-> "a", attr |-> "b"] }

\* The node can be visited by the visitor v: a declaration is left only while
\* one is open.
visitable(v, e) ==
    /\ e.kind = "Leave" => v.stack # << >>
    /\ e.kind \in {"ClassDef", "FunctionDef"} => Len(v.stack) < MaxDepth

\* What the visit of one node does to the visitor (lines 47-69).
visit_node(v, e) ==
    CASE e.kind = "Import" ->
            [v EXCEPT !.imports = import_names(v.imports, e.names)]
      [] e.kind = "ImportFrom" ->
            [v EXCEPT !.imports = import_from_names(v.imports, e.module, e.names)]
      [] e.kind = "ClassDef" ->
            [v EXCEPT !.current_class = e.name,
                      !.stack = Append(v.stack, [kind |-> "ClassDef", name |-> e.name,
                                                 outer |-> v.current_class])]
      [] e.kind = "FunctionDef" ->
            [v EXCEPT !.current_method =
                          method_in_FunctionDef(v.current_class, v.current_method, e.name),
                      !.stack = Append(v.stack, [kind |-> "FunctionDef", name |-> e.name,
                                                 outer |-> v.current_class])]
      [] e.kind = "Leave" ->
            IF v.stack[Len(v.stack)].kind = "ClassDef"
              THEN [v EXCEPT !.current_class = None, !.current_method = None,
                             !.stack = SubSeq(v.stack, 1, Len(v.stack) - 1)]
              ELSE [v EXCEPT !.current_method = None,
                             !.stack = SubSeq(v.stack, 1, Len(v.stack) - 1)]
      [] OTHER -> v

\* What the visit of one node does to the call graph (lines 71-91).
record_node(relations, v, e) ==
    IF e.kind = "Call"
      THEN record_call(relations, v.imports, v.current_file, v.current_class,
                       v.current_method, e.func)
      ELSE relations

RECURSIVE traverse(_, _, _)
\* visitor.visit(tree) on its own: the nodes in order, from the visitor v.
traverse(relations, v, nodelist) ==
    IF nodelist = << >> THEN relations
    ELSE traverse(record_node(relations, v, Head(nodelist)),
                  visit_node(v, Head(nodelist)), Tail(nodelist))

InitPar ==
    /\ pc = "start"
    /\ analyzed = {}
    /\ call_relations = CallInfo_init
    /\ current_file = NoPath
    /\ current_class = None
    /\ current_method = None
    /\ imports = EmptyDict
    /\ stack = << >>
    /\ json_file = NotWritten
    /\ nodes = 0
    /\ last = NoLast
    /\ matched = EmptyDict
    /\ parse_failed = FALSE
    /\ declared = EmptyDict
    /\ run = 0
    /\ src = << >>
    /\ first = NotWritten
    /\ DiscoveryElided
    /\ vis = [f \in FilePaths |-> NoVisitor]
    /\ wstate = [f \in FilePaths |-> "new"]
    /\ fed = [f \in FilePaths |-> << >>]

\* analyze_file up to visitor.visit(tree), for one of the files.
par_analyze_file(file) ==
    /\ wstate[file] = "new"
    /\ wstate' = [wstate EXCEPT ![file] = "visit"]
    /\ vis' = [vis EXCEPT ![file] = new_visitor(file)]
    /\ UNCHANGED << fed, analyzed, call_relations, traversal, discovery >>

\* The traversal of one of the files visits its next node.
par_visit(file, e) ==
    /\ wstate[file] = "visit"
    /\ Len(fed[file]) < MaxParNodes
    /\ LET v == visitor_of(vis, file)
       IN  /\ visitable(v, e)
           /\ call_relations' = record_node(call_relations, v, e)
           /\ vis' = [vis EXCEPT ![file] = visit_node(v, e)]
    /\ fed' = [fed EXCEPT ![file] = Append(fed[file], e)]
    /\ UNCHANGED << wstate, analyzed, traversal, discovery >>

\* visitor.visit(tree) returns for one of the files.
par_end_file(file) ==
    /\ wstate[file] = "visit"
    /\ vis[file].stack = << >>
    /\ wstate' = [wstate EXCEPT ![file] = "done"]
    /\ analyzed' = analyzed \cup {file}
    /\ UNCHANGED << vis, fed, call_relations, traversal, discovery >>

NextPar ==
    \/ \E file \in FilePaths : par_analyze_file(file)
    \/ \E file \in FilePaths, e \in ParEvents : par_visit(file, e)
    \/ \E file \in FilePaths : par_end_file(file)

SpecPar == InitPar /\ [][NextPar]_vars

----------------------------------------------------------------------------
\* The properties.

\* The count of a pair in a call graph, 0 when the pair is absent.
Count(relations, caller, callee) ==
    IF caller \in DOMAIN relations /\ callee \in DOMAIN relations[caller]
        THEN relations[caller][callee] ELSE 0

Pairs(relations) ==
    UNION { { << c, d >> : d \in DOMAIN relations[c] } : c \in DOMAIN relations }

\* A call graph as a set of (caller, callee, count) triples.
Triples(relations) ==
    { << q[1], q[2], relations[q[1]][q[2]] >> : q \in Pairs(relations) }

\* The last step visited a Call node.
LastCall == last.event.kind = "Call"

\* The label of the call site just visited: x.y for an attribute access on a
\* simple identifier, f for a simple identifier, none otherwise.
Label ==
    LET f == last.event.func
    IN  IF f.shape = "Name" THEN << f.id >>
        ELSE IF f.shape = "Attribute" THEN << f.id, f.attr >>
        ELSE << >>

Labelled == LastCall /\ Label # << >>
BuiltinNames == { <<"print">>, <<"len">> }
Bound(id) == << id >> \in DOMAIN imports

\* The last step left the call graph as it was.
GraphUnchanged == call_relations = last.before

\* The last step raised the count of the pair by one and changed nothing else.
RecordedOnly(caller, callee) ==
    /\ Count(call_relations, caller, callee) = Count(last.before, caller, callee) + 1
    /\ \A q \in Pairs(call_relations) \cup Pairs(last.before) :
            q # << caller, callee >>
            => Count(call_relations, q[1], q[2]) = Count(last.before, q[1], q[2])

\* The pairs whose count the last step changed.
ChangedPairs ==
    { q \in Pairs(call_relations) \cup Pairs(last.before) :
        Count(call_relations, q[1], q[2]) # Count(last.before, q[1], q[2]) }

ModulePath == current_file.dirs \o << current_file.stem >>

\* C1: at every point of a run, and in the file it writes, the count of every
\* (caller, callee) pair of the call graph is the number of call sites visited
\* so far that were labelled, not built-in, resolved and mapped to that pair;
\* a pair without such a site is absent: no count is zero and no caller has
\* an empty callee map.
C1_CountIsMatchedSites ==
    /\ \A c \in DOMAIN call_relations :
        /\ DOMAIN call_relations[c] # {}
        /\ \A d \in DOMAIN call_relations[c] :
            /\ call_relations[c][d] > 0
            /\ << c, d >> \in DOMAIN matched
            /\ call_relations[c][d] = matched[<< c, d >>]
    /\ \A q \in DOMAIN matched : Count(call_relations, q[1], q[2]) = matched[q]
    /\ json_file.written => json_file.data = call_relations

\* A run that has written a graph of two callers, one pair counted twice.
C1_Witness ==
    /\ pc = "exported"
    /\ Cardinality(DOMAIN json_file.data) >= 2
    /\ \E q \in Pairs(json_file.data) : json_file.data[q[1]][q[2]] = 2

\* C2: a labelled call that is no built-in name and whose first segment is
\* bound in the import table is recorded with the bound qualified name
\* followed by the other segments of its label; a plain import of a binds a to
\* a, and an import of n from a named source s binds n to s.n.
C2_CalleeIsBoundNameThenRest ==
    /\ (Labelled /\ Label \notin BuiltinNames /\ Bound(Head(Label)))
        => \E caller \in DOMAIN call_relations :
               RecordedOnly(caller, imports[<< Head(Label) >>] \o Tail(Label))
    /\ last.event.kind = "Import"
        => \A i \in 1..Len(last.event.names) :
               LET a == last.event.names[i].name
               IN  a \in DOMAIN imports /\ imports[a] = a
    /\ (last.event.kind = "ImportFrom" /\ last.event.module # NoModule)
        => \A i \in 1..Len(last.event.names) :
               LET n == last.event.names[i].name
               IN  n \in DOMAIN imports /\ imports[n] = last.event.module \o n

\* `from pkg import a`, then a.b() in method m of class C of pkg/mod.py: the
\* pair (pkg.mod.C.m, pkg.a.b) is recorded.
C2_Witness ==
    /\ LastCall
    /\ Label = <<"a", "b">>
    /\ Bound("a") /\ imports[<<"a">>] = <<"pkg", "a">>
    /\ RecordedOnly(<<"pkg", "mod", "C", "m">>, <<"pkg", "a", "b">>)

\* The scope a call site lies in, where the claim gives one: the method m of
\* class C (m declared directly in C's body), the class C, or no class.
InMethodOfClass ==
    /\ Len(stack) >= 2
    /\ stack[Len(stack)].kind = "FunctionDef"
    /\ stack[Len(stack) - 1].kind = "ClassDef"
InClassBody ==
    /\ stack # << >>
    /\ stack[Len(stack)].kind = "ClassDef"
    /\ \A i \in 1..Len(stack) : stack[i].kind # "FunctionDef"
OutsideAnyClass == \A i \in 1..Len(stack) : stack[i].kind # "ClassDef"

\* C3: a recorded call site in the body of a method m declared directly in
\* class C has the caller <modulePath>.C.m, wherever in that body it stands;
\* one in the body of C outside any method has <modulePath>.C; one outside
\* any class has <modulePath>.
C3_CallerIsEnclosingScope ==
    (LastCall /\ ~GraphUnchanged)
    => \A q \in ChangedPairs :
        /\ InMethodOfClass
            => q[1] = ModulePath \o << stack[Len(stack) - 1].name,
                                       stack[Len(stack)].name >>
        /\ InClassBody => q[1] = ModulePath \o << stack[Len(stack)].name >>
        /\ OutsideAnyClass => q[1] = ModulePath

\* C4: a call whose whole label is a built-in name is not recorded and leaves
\* the call graph as it was, also when the name is bound in the import table.
C4_BuiltinNeverRecorded ==
    (Labelled /\ Label \in BuiltinNames) => GraphUnchanged

\* print() visited while print is bound by an import and the graph is not empty.
C4_Witness ==
    /\ LastCall
    /\ Label = <<"print">>
    /\ Bound("print")
    /\ call_relations # EmptyDict

\* C5: a call whose callee is neither a simple identifier nor an attribute
\* access on a simple identifier is not recorded: visiting it leaves the call
\* graph as it was, whatever the import table and the scope are.
C5_UnlabelledNeverRecorded ==
    (LastCall /\ last.event.func.shape \notin {"Name", "Attribute"}) => GraphUnchanged

\* a.b.b() visited in a method, with a bound and the graph not empty.
C5_Witness ==
    /\ LastCall
    /\ last.event.func.shape = "AttributeChain"
    /\ Bound(last.event.func.id)
    /\ current_class # None /\ current_method # None
    /\ call_relations # EmptyDict

\* C6: when a file does not parse, the run ends in failure at that file: the
\* failing parse is its last step, and no graph is returned or written, not
\* even what the files before it have put into the aggregator.
C6_ParseErrorEndsRun ==
    parse_failed
    => /\ pc = "failed"
       /\ last.event.kind = "File" /\ ~last.event.ok
       /\ json_file = NotWritten

\* A second file fails to parse after the first has recorded a call.
C6_Witness ==
    /\ parse_failed
    /\ Cardinality(analyzed) = 2
    /\ call_relations # EmptyDict

\* The qualified names an import declaration can bind.
ImportedNames ==
    UNION { { e.names[i].name : i \in 1..Len(e.names) } :
                e \in { x \in Events : x.kind = "Import" } }
    \cup UNION { { (IF e.module = NoModule THEN <<"None">> ELSE e.module)
                       \o e.names[i].name : i \in 1..Len(e.names) } :
                    e \in { x \in Events : x.kind = "ImportFrom" } }

\* C7: a call is recorded only when the first segment of its label is in the
\* import table when the call is visited; a labelled call whose first segment
\* is not, dotted or bare, leaves the call graph as it was; so every callee of
\* the graph begins with a qualified name bound by an import.
C7_RecordedOnlyWhenBound ==
    /\ (Labelled /\ ~Bound(Head(Label))) => GraphUnchanged
    /\ (LastCall /\ ~GraphUnchanged) => (Labelled /\ Bound(Head(Label)))
    /\ \A q \in Pairs(call_relations) :
          \E k \in 1..Len(q[2]) : SubSeq(q[2], 1, k) \in ImportedNames

\* b.b() visited while only a is bound, after a call has been recorded.
C7_Witness ==
    /\ LastCall
    /\ Label = <<"b", "b">>
    /\ Bound("a") /\ ~Bound("b")
    /\ call_relations # EmptyDict

\* C8 as stated: a bare call f() whose name is no built-in and is absent from
\* the import table is recorded as the pair (current caller, f).
C8_BareUnboundRecorded ==
    (Labelled /\ Len(Label) = 1 /\ Label \notin BuiltinNames /\ ~Bound(Head(Label)))
    => \E caller \in DOMAIN call_relations : RecordedOnly(caller, Label)

\* C8, amended: a bare call f() whose name is no built-in and is absent from
\* the import table is not recorded: the call graph stays as it was.
C8_BareUnboundDropped ==
    (Labelled /\ Len(Label) = 1 /\ Label \notin BuiltinNames /\ ~Bound(Head(Label)))
    => GraphUnchanged

\* b() visited in a class body while b is not bound.
C8_Witness ==
    /\ LastCall
    /\ Label = <<"b">>
    /\ ~Bound("b")
    /\ current_class # None

\* C9: when the traversal of a class declaration completes, the class context
\* is the one that was active when the declaration was entered, and the
\* method context is cleared.
C9_ClassExitRestoresOuter ==
    (last.event.kind = "Leave" /\ last.left.kind = "ClassDef")
    => /\ current_class = last.left.outer
       /\ current_method = None

\* C10: the second of two executions over the same files writes the graph the
\* first one wrote, as a set of (caller, callee, count) triples; it starts
\* from an empty aggregator.
C10_RerunSameGraph ==
    /\ (run = 2 /\ json_file.written)
        => Triples(json_file.data) = Triples(first.data)
    /\ (run = 2 /\ pc = "walk" /\ analyzed = {}) => call_relations = EmptyDict

\* The second execution has written a graph with a pair counted twice.
C10_Witness ==
    /\ run = 2
    /\ pc = "exported"
    /\ \E q \in Pairs(json_file.data) : json_file.data[q[1]][q[2]] = 2


\* The innermost open declaration is a function that was declared while no
\* class context was active.
InFreeFunction ==
    /\ stack # << >>
    /\ stack[Len(stack)].kind = "FunctionDef"
    /\ stack[Len(stack)].outer = None

\* C12: a function declaration visited while no class context is active sets
\* no method context, and a call recorded in the body of such a function has
\* the caller <modulePath>, not one that ends in the function's name.
C12_FreeFunctionIsModuleCaller ==
    /\ (last.event.kind = "FunctionDef" /\ InFreeFunction)
        => current_method = None
    /\ (LastCall /\ InFreeFunction)
        => /\ current_method = None
           /\ \A q \in ChangedPairs :
                /\ q[1] = ModulePath
                /\ q[1] # ModulePath \o << stack[Len(stack)].name >>

\* `import a`, then a.b() in the body of the module-level function g of
\* pkg/mod.py: the pair (pkg.mod, a.b) is recorded.
C12_Witness ==
    /\ LastCall
    /\ stack = << [kind |-> "FunctionDef", name |-> "g", outer |-> None] >>
    /\ RecordedOnly(<<"pkg", "mod">>, <<"a", "b">>)

\* The module paths of the files of the model.
ModulePaths == { get_module_path(p) : p \in FilePaths }

\* C18: in every state a method context is set only while a class context is
\* set, and every caller of the call graph is a module path, a module path
\* followed by a class name, or a module path followed by a class name and a
\* function name; none is a module path followed by a function name.
C18_MethodOnlyInClass ==
    /\ current_method # None => current_class # None
    /\ \A c \in DOMAIN call_relations :
        /\ \E mp \in ModulePaths :
              \/ c = mp
              \/ \E t \in ClassNames : c = mp \o << t >>
              \/ \E t \in ClassNames, f \in FunctionNames : c = mp \o << t, f >>
        /\ \A mp \in ModulePaths, f \in FunctionNames : c # mp \o << f >>

\* A call recorded in method m of class C after one recorded in the body of C:
\* both contexts are set and the graph has callers of two of the shapes.
C18_Witness ==
    /\ LastCall /\ ~GraphUnchanged
    /\ current_class = "C" /\ current_method = "m"
    /\ ModulePath \o <<"C", "m">> \in DOMAIN call_relations
    /\ ModulePath \o <<"C">> \in DOMAIN call_relations

\* Pairs to record: those already in the graph, and some that are not.
SomePairs ==
    Pairs(call_relations)
      \cup { << mp, d >> : mp \in ModulePaths, d \in { <<"a", "b">>, <<"x">> } }

\* C17: add_call(caller, callee), applied to the graph a call site leaves,
\* raises the count of that pair by one, to 1 when the pair, or the caller,
\* was absent, and leaves every other pair as it was; a matched call site is
\* one such add_call for its caller and resolved callee, and no step of a run
\* removes a pair or lowers a count.
C17_RecordRaisesOnePair ==
    /\ LastCall
        => \A q \in SomePairs :
             LET after == add_call(call_relations, q[1], q[2])
             IN  /\ Count(after, q[1], q[2]) = Count(call_relations, q[1], q[2]) + 1
                 /\ q \notin Pairs(call_relations) => after[q[1]][q[2]] = 1
                 /\ Pairs(after) = Pairs(call_relations) \cup {q}
                 /\ DOMAIN after = DOMAIN call_relations \cup {q[1]}
                 /\ \A r \in Pairs(call_relations) :
                       r # q => after[r[1]][r[2]] = call_relations[r[1]][r[2]]
    /\ (Labelled /\ Label \notin BuiltinNames /\ Bound(Head(Label)))
        => RecordedOnly(caller_identity(current_file, current_class, current_method),
                        imports[<< Head(Label) >>] \o Tail(Label))
    /\ \A r \in Pairs(last.before) :
          /\ r \in Pairs(call_relations)
          /\ call_relations[r[1]][r[2]] >= last.before[r[1]][r[2]]

\* A call site that adds a second callee, with count 1, to a caller that has
\* another callee counted twice.
C17_Witness ==
    /\ LastCall
    /\ \E q \in ChangedPairs :
          /\ q \notin Pairs(last.before)
          /\ call_relations[q[1]][q[2]] = 1
          /\ q[1] \in DOMAIN last.before
          /\ \E d \in DOMAIN last.before[q[1]] : last.before[q[1]][d] = 2

\* The binding the declaration d makes for the name k.
BindingOf(k, d) ==
    IF d.kind = "Import" THEN k ELSE module_text(d.module) \o k

\* C13: while a file is traversed, the import table has one entry for each
\* name declared so far in the file, and it is the binding of the declaration
\* that named it last; a matched call is recorded with that binding.
C13_LastImportWins ==
    /\ pc = "visit"
        => /\ DOMAIN imports = DOMAIN declared
           /\ \A k \in DOMAIN declared : imports[k] = BindingOf(k, declared[k])
    /\ (Labelled /\ Label \notin BuiltinNames
            /\ << Head(Label) >> \in DOMAIN declared)
        => RecordedOnly(caller_identity(current_file, current_class, current_method),
                        BindingOf(<< Head(Label) >>, declared[<< Head(Label) >>])
                            \o Tail(Label))

\* `import a`, a.b(), `from pkg import a`, a.b(): the second call is recorded
\* as pkg.a.b, the first one was recorded as a.b.
C13_Witness ==
    /\ LastCall
    /\ Label = <<"a", "b">>
    /\ <<"a">> \in DOMAIN declared
    /\ declared[<<"a">>] = [kind |-> "ImportFrom", module |-> <<"pkg">>]
    /\ RecordedOnly(ModulePath, <<"pkg", "a", "b">>)
    /\ Count(last.before, ModulePath, <<"a", "b">>) = 1

\* C14: an import declaration with a rename clause binds the declared name,
\* to itself for `import a as b` and to m.a for `from m import a as b`, and it
\* makes the rename target a key of the import table only if a declaration of
\* the file declares that name; a call whose first segment no declaration
\* of the file declares, a rename target included, is not recorded, while
\* one whose first segment is a declared name is recorded with its binding.
C14_RenameBindsDeclaredName ==
    /\ last.event.kind \in {"Import", "ImportFrom"}
        => \A i \in 1..Len(last.event.names) :
             LET alias == last.event.names[i]
             IN  alias.asname # None
                 => /\ alias.name \in DOMAIN imports
                    /\ imports[alias.name] =
                          IF last.event.kind = "Import" THEN alias.name
                          ELSE module_text(last.event.module) \o alias.name
                    /\ << alias.asname >> \in DOMAIN imports
                          => << alias.asname >> \in DOMAIN declared
    /\ Labelled
        => IF << Head(Label) >> \in DOMAIN declared /\ Label \notin BuiltinNames
             THEN \E caller \in DOMAIN call_relations :
                    RecordedOnly(caller, BindingOf(<< Head(Label) >>,
                                                   declared[<< Head(Label) >>])
                                             \o Tail(Label))
             ELSE GraphUnchanged

\* `from pkg import a as b` has just been visited in a file that had no
\* import before: the import table has the one key a, bound to pkg.a.
C14_Witness ==
    /\ last.event.kind = "ImportFrom"
    /\ last.event.names = << Alias(<<"a">>, "b") >>
    /\ DOMAIN imports = { <<"a">> }
    /\ imports[<<"a">>] = <<"pkg", "a">>
    /\ <<"b">> \notin DOMAIN imports

\* C15: the traversal of a file starts with an empty import table, no class
\* context, no method context and no open declaration; a call is recorded
\* only if its first segment is declared in the file it stands in, and its
\* caller starts with the module path of that file.
C15_VisitorPerFile ==
    /\ (last.event.kind = "File" /\ last.event.ok)
        => /\ current_file = last.event.path
           /\ imports = EmptyDict
           /\ current_class = None
           /\ current_method = None
           /\ stack = << >>
    /\ (LastCall /\ ~GraphUnchanged)
        => /\ << Head(Label) >> \in DOMAIN declared
           /\ \A q \in ChangedPairs :
                /\ Len(q[1]) >= Len(ModulePath)
                /\ SubSeq(q[1], 1, Len(ModulePath)) = ModulePath

\* The second file of a run calls a.b() without declaring a, which the first
\* file declared and called: the call is not recorded.
C15_Witness ==
    /\ LastCall
    /\ Cardinality(analyzed) = 2
    /\ Label = <<"a", "b">>
    /\ declared = EmptyDict
    /\ GraphUnchanged
    /\ \E c \in DOMAIN call_relations :
          /\ <<"a", "b">> \in DOMAIN call_relations[c]
          /\ c # ModulePath

\* The positions of the input so far, before the one just taken, that hold an
\* import declaration of the name k in the file being traversed.
DeclaredBefore(k) ==
    { i \in 1..(Len(src) - 1) :
        /\ src[i].kind \in {"Import", "ImportFrom"}
        /\ \E n \in 1..Len(src[i].names) : src[i].names[n].name = k
        /\ \A j \in (i + 1)..Len(src) : src[j].kind # "File" }

\* The greatest element of a non-empty set of positions.
Latest(S) == CHOOSE i \in S : \A j \in S : j <= i

\* C19: a labelled call that is no built-in name is recorded if and only if
\* an import declaration of its first segment was visited before it in the
\* same file, inside or outside any class or function body, and then with the
\* binding of the latest such declaration; an import declaration visited
\* after the call does not record it.
C19_ResolvedByEarlierImports ==
    (run = 1 /\ Labelled /\ Label \notin BuiltinNames)
    => LET before == DeclaredBefore(<< Head(Label) >>)
       IN  IF before = {}
             THEN GraphUnchanged
             ELSE LET d == src[Latest(before)]
                  IN  RecordedOnly(
                        caller_identity(current_file, current_class, current_method),
                        BindingOf(<< Head(Label) >>, d) \o Tail(Label))

\* `class C:` with `import a` in its body, then a.b() at module level after
\* the class: the call is recorded with the caller pkg.mod.
C19_Witness ==
    /\ run = 1
    /\ Len(src) = 5
    /\ src[1].kind = "File"
    /\ src[2].kind = "ClassDef"
    /\ src[3].kind = "Import"
    /\ src[4].kind = "Leave"
    /\ LastCall
    /\ stack = << >>
    /\ RecordedOnly(ModulePath, <<"a", "b">>)

\* The text of the path of a directory or of a file of the walk, and whether
\* some entry of the ignore list occurs in a text.
DirText(dirs) == root_text(settings.path, dirs)
FileText(f) == path_join(DirText(f.dirs), Spell(f.stem) \o Spell(f.ext))
HasIgnored(text) ==
    \E k \in 1..Len(settings.ignore_list) :
        LET ig == Spell(settings.ignore_list[k])
        IN  \E i \in 1..Len(text) :
              /\ i + Len(ig) - 1 <= Len(text)
              /\ \A j \in 1..Len(ig) : text[i + j - 1] = ig[j]

\* C11: no directory below the top one is walked whose path holds an entry of
\* the ignore list; every analysed file lies in a walked directory, has a
\* path that holds no entry of the ignore list and a name whose last three
\* characters are .py; and every caller of the graph is the module path of
\* such a file.
C11_IgnoredNeverWalked ==
    /\ \A d \in walked : d # << >> => ~HasIgnored(DirText(d))
    /\ \A f \in analyzed :
        /\ f.dirs \in walked
        /\ ~HasIgnored(FileText(f))
        /\ f.ext = ".py"
    /\ \A c \in DOMAIN call_relations :
         \E f \in analyzed :
            /\ c = f.dirs \o << f.stem >>
            /\ ~HasIgnored(FileText(f))

\* The top directory lists pkg and myenv, of which myenv is pruned, and
\* m.py and env.py have been taken, of which m.py is analysed and is a caller.
C11_Witness ==
    /\ walk_pc = "files"
    /\ settings.path = "."
    /\ cur.root = << >>
    /\ cur.listed = << "pkg", "myenv" >>
    /\ cur.dirs = << "pkg" >>
    /\ cur.next = 3
    /\ analyzed = { [dirs |-> << >>, stem |-> "m", ext |-> ".py"] }
    /\ DOMAIN call_relations = { << "m" >> }

\* The graph of one file: its nodes visited in order, alone, from a new
\* visitor and an empty aggregator.
FileGraph(file) == traverse(CallInfo_init, new_visitor(file), fed[file])

RECURSIVE SumCount(_, _, _)
\* The count of a pair summed over the graphs of the files of a set.
SumCount(files, caller, callee) ==
    IF files = {} THEN 0
    ELSE LET f == CHOOSE x \in files : TRUE
         IN  Count(FileGraph(f), caller, callee) + SumCount(files \ {f}, caller, callee)

\* C16: when files are traversed side by side, each with its own visitor and
\* with add_call atomic, then in whatever order their steps are taken the
\* call graph holds, for every pair, the sum of the counts of the graphs the
\* files give when each is traversed alone; so does the final graph.
C16_InterleavingIsSum ==
    /\ \A f \in FilePaths : wstate[f] = "new" => fed[f] = << >>
    /\ \A q \in Pairs(call_relations) \cup UNION { Pairs(FileGraph(f)) : f \in FilePaths } :
          Count(call_relations, q[1], q[2]) = SumCount(FilePaths, q[1], q[2])

\* Both traversals are under way, each inside a class and each with a call
\* recorded: their steps are interleaved.
C16_Witness ==
    /\ \A f \in FilePaths :
        /\ wstate[f] = "visit"
        /\ vis[f].current_class = "C"
        /\ Pairs(FileGraph(f)) # {}
    /\ Cardinality(DOMAIN call_relations) = 2

=============================================================================
